---- MODULE Spec2Model ----
(***************************************************************************)
(* Chat pipeline of the QuantumKat Discord bot: cogs/Chat.py               *)
(* (initiateChat, database_read, database_remove, the clear and view       *)
(* commands) and the helpers of cogs/utils/utils.py it calls               *)
(* (calculate_tokens, get_urls_in_message, convert_to_base64, URLHandler,  *)
(* split_message_by_sentence).                                             *)
(*                                                                         *)
(* Specifications.  Spec is one chat invocation over every kind of         *)
(* message, attachment and answer; SpecLive is Spec with the scheduling    *)
(* of the event loop; SpecStore is chat, clear and view commands one       *)
(* after another by members of two servers; SpecConc is two chat           *)
(* invocations interleaved at their awaits; SpecRace is a chat command     *)
(* beside a clear command; SpecConvert is convert_to_base64 by itself,     *)
(* for every answer of the web server.                                     *)
(*                                                                         *)
(* Texts.  A text that the code only stores, compares and forwards is a    *)
(* string id.  A completion text, which the code measures and splits, is   *)
(* looked up by its id in ResponseText as a sequence of pieces: a natural  *)
(* n stands for a run of n characters holding no ". ", and Sep stands for  *)
(* one occurrence of the two characters ". ".                              *)
(*                                                                         *)
(* Call bindings.  Chat.py:198 calls get_image_as_base64(url); utils.py    *)
(* holds one URL-to-base64 converter, convert_to_base64, which is the one  *)
(* modelled.  Calls bind as the @overload declarations state them          *)
(* (URLHandler(url), download_file(amount_or_limit, unit)).  Exceptions    *)
(* are kept under the class names the source raises and catches.           *)
(***************************************************************************)
EXTENDS Integers, Sequences, FiniteSets, TLC

\* ---------------------------------------------------------------- bounds
\* rows beyond the read limit that the store may hold at start
ExtraRows == 2
\* tokens tiktoken gives for the system message template (Chat.py:43-53)
SystemTokens == 250

\* tokens tiktoken gives for a mention as typed, "<@id>"
MentionTokens == 8
\* tokens by which the user id and the version outnumber the placeholders
FormatGrowth == 1

\* ------------------------------------------------------ program constants
TokenBudget == 1024
HistoryLimit == 10
DiscordLimit == 2000
OPENAI_IMAGE_SIZE_LIMIT_MB == 20
ChunkSize == 1024

None == "None"
\* the separator ". " as a piece of a text
Sep == -1
\* header_file_size when the response has no Content-Length header
NoLength == -1

\* ------------------------------------------------------------- utilities
Min(a, b) == IF a < b THEN a ELSE b

RECURSIVE Reverse(_)
\* list.reverse()
Reverse(s) == IF s = <<>> THEN <<>> ELSE Append(Reverse(Tail(s)), Head(s))

RECURSIVE Flatten(_)
Flatten(ss) == IF ss = <<>> THEN <<>> ELSE Head(ss) \o Flatten(Tail(ss))

\* the last n elements of s (all of s when it is shorter)
LastN(s, n) == IF Len(s) <= n THEN s ELSE SubSeq(s, Len(s) - n + 1, Len(s))

\* ------------------------------------------------------------------ texts
PieceLen(x) == IF x = Sep THEN 2 ELSE x

RECURSIVE TextLen(_)
\* len(text)
TextLen(t) == IF t = <<>> THEN 0 ELSE PieceLen(Head(t)) + TextLen(Tail(t))

RECURSIVE SplitSep(_, _)
\* message.split(". "): the runs between the separators, as texts; cur is the
\* run being read
SplitSep(t, cur) ==
    IF t = <<>> THEN <<cur>>
    ELSE IF Head(t) = Sep THEN <<cur>> \o SplitSep(Tail(t), <<>>)
    ELSE SplitSep(Tail(t), Append(cur, Head(t)))

RECURSIVE SplitLoop(_, _, _, _)
\* the for loop of split_message_by_sentence over the remaining sentences
SplitLoop(sentences, current_length, current_message, messages) ==
    IF sentences = <<>>
    THEN IF current_message # <<>> THEN Append(messages, current_message)
         ELSE messages
    ELSE LET sentence == Head(sentences)
             flush == current_length + TextLen(sentence) + 1 > DiscordLimit
             len0 == IF flush THEN 0 ELSE current_length
             msg0 == IF flush THEN <<>> ELSE current_message
             out0 == IF flush THEN Append(messages, current_message)
                     ELSE messages
         IN SplitLoop(Tail(sentences), len0 + TextLen(sentence) + 1,
                      msg0 \o sentence \o <<Sep>>, out0)

split_message_by_sentence(message) ==
    SplitLoop(SplitSep(message, <<>>), 0, <<>>, <<>>)

\* adjacent runs of plain characters merged, empty runs dropped: two piece
\* sequences spell the same string iff their normal forms are equal
RECURSIVE Normal(_)
Normal(t) ==
    IF t = <<>> THEN <<>>
    ELSE IF Head(t) = 0 THEN Normal(Tail(t))
    ELSE IF Head(t) = Sep THEN <<Sep>> \o Normal(Tail(t))
    ELSE LET r == Normal(Tail(t))
         IN IF r # <<>> /\ Head(r) # Sep
            THEN <<Head(t) + Head(r)>> \o Tail(r)
            ELSE <<Head(t)>> \o r

\* ------------------------------------------------------------- the world
Users == {"u1", "u2"}
Guilds == {"g1", "g2"}

\* ctx of a command invocation: the author and the guild (None in a direct
\* message) and the channel the message came in
GuildChannel == "c1"
DMChannel(user) == IF user = "u1" THEN "d1" ELSE "d2"
Contexts ==
    { [author |-> u, guild |-> g,
       channel |-> IF g = None THEN DMChannel(u) ELSE GuildChannel]
      : u \in Users, g \in Guilds \cup {None} }

\* completion texts the API may return, by id
ResponseIds == {"r_short", "r_limit", "r_nosep", "r_two", "r_ten"}
ResponseText(id) ==
    CASE id = "r_short" -> <<10, Sep, 5>>
      [] id = "r_limit" -> <<DiscordLimit>>
      [] id = "r_nosep" -> <<DiscordLimit + 500>>
      [] id = "r_two"   -> <<1000, Sep, 1000>>
      [] id = "r_ten"   -> <<199, Sep, 199, Sep, 199, Sep, 199, Sep, 199, Sep,
                             199, Sep, 199, Sep, 199, Sep, 199, Sep, 199>>
      [] OTHER          -> <<1>>

\* URLs are sequences of characters; the others are the regex's matches
UrlA == <<"a">>
UrlB == <<"b", ">">>

\* the messages a user may send: the text (as lines 184-191 rebuild it from
\* ctx.message.content), the tokens tiktoken counts for the user_message
\* argument, the matches of the URL pattern in the text, and the members
\* mentioned (a mention is "<@id>" in the argument and the member's display
\* name in the text)
UserMessages ==
    { [text |-> "",        tokens |-> 0,  urls |-> <<>>, mentions |-> <<>>],
      [text |-> "hello",   tokens |-> 1,  urls |-> <<>>, mentions |-> <<>>],
      [text |-> "hi Bob",  tokens |-> 10, urls |-> <<>>, mentions |-> <<"u2">>],
      [text |-> "edge",    tokens |-> TokenBudget - SystemTokens,
                           urls |-> <<>>, mentions |-> <<>>],
      [text |-> "long a",  tokens |-> TokenBudget - SystemTokens + 1,
                           urls |-> <<UrlA>>, mentions |-> <<>>],
      [text |-> "see a",   tokens |-> 5,  urls |-> <<UrlA>>, mentions |-> <<>>],
      [text |-> "see a b", tokens |-> 9,  urls |-> <<UrlA, UrlB>>,
                           mentions |-> <<>>] }

\* what a web server may answer for a URL: whether HEAD and GET succeed, the
\* extension guess_extension gives for the declared Content-Type, the declared
\* Content-Length (NoLength when the header is missing), the length of the body
\* it streams, and the frames PIL finds in it
LimitBytes == OPENAI_IMAGE_SIZE_LIMIT_MB * 1024 * 1024
Sites ==
    { [head |-> h, get |-> g, ext |-> e, clen |-> c, body |-> b, frames |-> f]
      : h \in BOOLEAN, g \in BOOLEAN, e \in {".png", ".gif", ".pdf"},
        c \in {NoLength, 1000, LimitBytes, LimitBytes + 1},
        b \in {1000, LimitBytes + 5000}, f \in {1, 2} }

\* ------------------------------------------------------------- the store
\* crud.add_chat: one row, the next id
add_chat(table, user_id, server_id, user_message, assistant_message, shared_chat) ==
    Append(table, [id |-> IF table = <<>> THEN 1
                          ELSE table[Len(table)].id + 1,
                   user_id |-> user_id, server_id |-> server_id,
                   user_message |-> user_message,
                   assistant_message |-> assistant_message,
                   shared_chat |-> shared_chat])

\* the (user_message, assistant_message) pairs of the rows, newest first, at
\* most n of them
NewestFirst(rows, n) ==
    LET r == Reverse(LastN(rows, n))
    IN [i \in 1..Len(r) |-> <<r[i].user_message, r[i].assistant_message>>]

\* crud.get_chats_for_user
get_chats_for_user(table, server_id, user_id, n) ==
    NewestFirst(SelectSeq(table, LAMBDA r : /\ r.server_id = server_id
                                            /\ r.user_id = user_id
                                            /\ ~r.shared_chat), n)

\* crud.get_shared_chats_for_server
get_shared_chats_for_server(table, server_id, n) ==
    NewestFirst(SelectSeq(table, LAMBDA r : /\ r.server_id = server_id
                                            /\ r.shared_chat), n)

\* crud.delete_chat: the private rows of the user in the server go
delete_chat(table, server_id, user_id) ==
    SelectSeq(table, LAMBDA r : ~(/\ r.server_id = server_id
                                  /\ r.user_id = user_id
                                  /\ ~r.shared_chat))

\* crud.delete_shared_chat: the shared rows of the server go
delete_shared_chat(table, server_id) ==
    SelectSeq(table, LAMBDA r : ~(/\ r.server_id = server_id
                                  /\ r.shared_chat))

\* ------------------------------------------------------------ the helpers
is_dm(c) == c.guild = None

get_server_id_and_name(c) ==
    IF ~is_dm(c) THEN <<c.guild, "guild">> ELSE <<c.channel, "DM">>

calculate_tokens(user_tokens, system_tokens) == user_tokens + system_tokens

\* tokens of a display name
DisplayNameTokens(user) == IF user = "u1" THEN 2 ELSE 12

RECURSIVE MentionsReplaced(_, _)
\* lines 188-191: the tokens of the text after each mention in it has been
\* replaced by the display name of the member
MentionsReplaced(tokens, mentions) ==
    IF mentions = <<>> THEN tokens
    ELSE MentionsReplaced(tokens - MentionTokens + DisplayNameTokens(Head(mentions)),
                          Tail(mentions))

\* lines 227-232: the tokens of the system prompt after format() has put
\* the user id and the version in the place of {user} and {version}
SystemTokensSent == SystemTokens + FormatGrowth

strip_embed_disabler(url) == SelectSeq(url, LAMBDA ch : ch \notin {"<", ">"})

\* a message of the completion API: a role and a content, which is a text
\* or, when multipart, a list of the text and one {"image": x} per image
Msg(role, content) ==
    [role |-> role, content |-> content, images |-> <<>>, multipart |-> FALSE]

RECURSIVE ReadLoop_UserFirst(_, _)
\* ReadLoop that appends the user line before the assistant line
ReadLoop_UserFirst(result, messages) ==
    IF result = <<>> THEN messages
    ELSE ReadLoop_UserFirst(Tail(result),
                  messages \o <<Msg("user", Head(result)[1]),
                                Msg("assistant", Head(result)[2])>>)

RECURSIVE ReadLoop(_, _)
\* the for loop of database_read over the rows crud returned
ReadLoop(result, messages) ==
    IF result = <<>> THEN messages
    ELSE ReadLoop(Tail(result),
                  messages \o <<Msg("assistant", Head(result)[2]),
                                Msg("user", Head(result)[1])>>)

\* database_read without the final messages.reverse()
database_read_NoReverse(table, c, shared_chat) ==
    LET server_id == get_server_id_and_name(c)[1]
        result == IF shared_chat
                  THEN get_shared_chats_for_server(table, server_id, HistoryLimit)
                  ELSE get_chats_for_user(table, server_id, c.author, HistoryLimit)
    IN ReadLoop(result, <<>>)

\* database_read that reads the private thread whatever shared_chat is
database_read_PrivateOnly(table, c, shared_chat) ==
    LET server_id == get_server_id_and_name(c)[1]
        result == get_chats_for_user(table, server_id, c.author, HistoryLimit)
    IN Reverse(ReadLoop(result, <<>>))

database_read(table, c, shared_chat) ==
    LET server_id == get_server_id_and_name(c)[1]
        result == IF shared_chat
                  THEN get_shared_chats_for_server(table, server_id, HistoryLimit)
                  ELSE get_chats_for_user(table, server_id, c.author, HistoryLimit)
    IN Reverse(ReadLoop(result, <<>>))

\* database_remove that deletes the private rows whatever shared_chat is
database_remove_PrivateOnly(table, c, shared_chat) ==
    LET server_id == get_server_id_and_name(c)[1]
    IN delete_chat(table, server_id, c.author)

\* database_remove that deletes the shared rows of the server as well
database_remove_SharedToo(table, c, shared_chat) ==
    LET server_id == get_server_id_and_name(c)[1]
    IN IF shared_chat
       THEN delete_shared_chat(table, server_id)
       ELSE delete_shared_chat(delete_chat(table, server_id, c.author),
                               server_id)

\* database_remove: the table it leaves
database_remove(table, c, shared_chat) ==
    LET server_id == get_server_id_and_name(c)[1]
    IN IF shared_chat
       THEN delete_shared_chat(table, server_id)
       ELSE delete_chat(table, server_id, c.author)

SUPPORTED_IMAGE_FORMATS == {".png", ".jpeg", ".jpg", ".webp", ".gif"}

\* content_size_is_over_limit that also refuses a size equal to the limit
content_size_is_over_limit_AtLimit(size, limit_mb) == size >= limit_mb * 1024 * 1024

\* content_size_is_over_limit for an int; a missing Content-Length header
\* reaches it as None, which matches no isinstance branch and leaves
\* file_size unbound
content_size_is_over_limit(size, limit_mb) == size > limit_mb * 1024 * 1024

\* URLHandler.download_file(amount_or_limit, unit): the length of the data
\* the chunk loop returns for a body of the given length (chunks of
\* ChunkSize bytes; the loop breaks once len(data) >= calculated_size)
download_file(body, amount_or_limit) ==
    LET calculated_size == amount_or_limit * 1024 * 1024
        chunks == (calculated_size + ChunkSize - 1) \div ChunkSize
    IN Min(body, chunks * ChunkSize)

\* encode_byte_stream_to_base64: one string per frame
encode_byte_stream_to_base64(url, site, bytes) ==
    [i \in 1..site.frames |-> [url |-> url, frame |-> i, bytes |-> bytes]]

\* convert_to_base64(url): the exception it raises (None when it returns),
\* the frames it returns, and the network events it causes, in order
convert_to_base64(url, site) ==
    LET probed == IF site.head THEN <<"head">> ELSE <<"head", "get_header">>
        bytes == download_file(site.body, OPENAI_IMAGE_SIZE_LIMIT_MB)
    IN IF ~site.head /\ ~site.get
       THEN [exc |-> "ValueError", frames |-> <<>>, events |-> probed]
       ELSE IF site.ext \notin SUPPORTED_IMAGE_FORMATS
       THEN [exc |-> "UnsupportedImageFormatError", frames |-> <<>>,
             events |-> probed]
       ELSE IF site.clen = NoLength
       THEN [exc |-> "UnboundLocalError", frames |-> <<>>, events |-> probed]
       ELSE IF content_size_is_over_limit(site.clen, OPENAI_IMAGE_SIZE_LIMIT_MB)
       THEN [exc |-> "FileSizeLimitError", frames |-> <<>>, events |-> probed]
       ELSE IF ~site.get
       THEN [exc |-> "ValueError", frames |-> <<>>,
             events |-> Append(probed, "download")]
       ELSE [exc |-> None,
             frames |-> encode_byte_stream_to_base64(url, site, bytes),
             events |-> Append(probed, "download")]

\* the exceptions the except clause of Chat.py:199-202 names
CaughtAttachmentErrors == {"UnsupportedImageFormatError", "FileSizeError"}

\* ------------------------------------------------------------- the state
VARIABLES
    FOUND_API_KEY,  \* Chat.FOUND_API_KEY
    chat,           \* the chat table, rows in id order
    inv,            \* per invocation: position and locals of initiateChat
    store_log       \* the calls of crud made so far, in the order made

vars == <<FOUND_API_KEY, chat, inv, store_log>>

NoMessage == [text |-> "", tokens |-> 0, urls |-> <<>>, mentions |-> <<>>]
NoRole == [role |-> "", content |-> "", images |-> <<>>, multipart |-> FALSE]

\* an invocation not yet begun
Idle ==
    [pc |-> "idle",
     ctx |-> [author |-> None, guild |-> None, channel |-> None],
     shared_chat |-> FALSE,
     message |-> NoMessage,
     tokens |-> 0,
     next_url |-> 1,
     base64_images |-> <<>>,
     user_role |-> NoRole,
     conversation_history |-> <<>>,
     messages |-> <<>>,
     api_result |-> None,
     chat_response |-> None,
     outbox |-> <<>>,
     exc |-> None,
     \* what the invocation did: the replies passed to ctx.reply, the
     \* errors passed to logger.error, the calls it made on the network
     \* and the store and the replies after them, in order, and the table
     \* as it was at the start and at the read
     replies |-> <<>>,
     errors |-> <<>>,
     trace |-> <<>>,
     chat_at_start |-> <<>>,
     chat_at_read |-> <<>>]

\* a call of ctx.reply: what kind of message, and what it carries (the text
\* of a completion chunk, the token count, the URL or the error it names)
Reply(kind, text, tokens, about) ==
    [kind |-> kind, text |-> text, tokens |-> tokens, about |-> about]

\* a table of n rows written before the process started: every third row is
\* of another thread of the same server, the others are of the heavy thread
\* (the private one of u1 in g1, or the shared one of g1)
RECURSIVE InitialTable(_, _)
InitialTable(n, heavy_shared) ==
    IF n = 0 THEN <<>>
    ELSE LET other == n % 3 = 0
         IN add_chat(InitialTable(n - 1, heavy_shared),
                     IF other THEN "u2" ELSE "u1",
                     "g1",
                     "q" \o ToString(n), "a" \o ToString(n),
                     IF other THEN ~heavy_shared ELSE heavy_shared)

\* the length of the table that holds h rows of the heavy thread
TotalFor(h) == IF h = 0 THEN 0 ELSE h + (h - 1) \div 2

InitialSizes ==
    { TotalFor(h) : h \in {0, 1, HistoryLimit, HistoryLimit + ExtraRows} }

\* the invocations of a behaviour
Procs == {1}

Init ==
    /\ FOUND_API_KEY \in BOOLEAN
    /\ \E n \in InitialSizes, h \in BOOLEAN : chat = InitialTable(n, h)
    /\ inv = [p \in Procs |-> Idle]
    /\ store_log = <<>>

Terminal == {"rejected", "replied", "failed", "raised"}

Ev(op, url) == [op |-> op, url |-> url]

\* a call of crud: the invocation that made it and its ctx and shared_chat,
\* the rows it wrote or deleted, and the result it returned
Call(op, p, c, shared_chat, rows, result) ==
    [op |-> op, by |-> p, ctx |-> c, shared_chat |-> shared_chat,
     rows |-> rows, result |-> result]

\* inv with the fields of invocation p set as in r
Set(p, r) == [inv EXCEPT ![p] = r]

\* Start with the budget test off by one (tokens >= 1024 rejected)
Start_RejectAtBudget(p) ==
    /\ inv[p].pc = "idle"
    /\ UNCHANGED <<FOUND_API_KEY, chat, store_log>>
    /\ \E c \in Contexts, sh \in BOOLEAN, m \in UserMessages :
         LET new == [Idle EXCEPT !.ctx = c, !.shared_chat = sh,
                                 !.message = m, !.chat_at_start = chat]
             tokens == calculate_tokens(m.tokens, SystemTokens)
         IN inv' = Set(p,
              IF FOUND_API_KEY # TRUE
              THEN [new EXCEPT !.pc = "rejected",
                      !.trace = <<Ev("reply", <<>>)>>,
                      !.replies = <<Reply("no_api_key", <<>>, 0, <<>>)>>]
              ELSE IF m.text = ""
              THEN [new EXCEPT !.pc = "rejected",
                      !.trace = <<Ev("reply", <<>>)>>,
                      !.replies = <<Reply("empty", <<>>, 0, <<>>)>>]
              ELSE IF tokens >= TokenBudget
              THEN [new EXCEPT !.pc = "rejected", !.tokens = tokens,
                      !.trace = <<Ev("reply", <<>>)>>,
                      !.replies = <<Reply("too_long", <<>>, tokens, <<>>)>>]
              ELSE IF m.urls # <<>>
              THEN [new EXCEPT !.pc = "urls", !.tokens = tokens]
              ELSE [new EXCEPT !.pc = "read", !.tokens = tokens,
                      !.user_role = Msg("user", m.text)])

\* Start without the test of line 181: an empty message goes on
Start_EmptyAccepted(p) ==
    /\ inv[p].pc = "idle"
    /\ UNCHANGED <<FOUND_API_KEY, chat, store_log>>
    /\ \E c \in Contexts, sh \in BOOLEAN, m \in UserMessages :
         LET new == [Idle EXCEPT !.ctx = c, !.shared_chat = sh,
                                 !.message = m, !.chat_at_start = chat]
             tokens == calculate_tokens(m.tokens, SystemTokens)
         IN inv' = Set(p,
              IF FOUND_API_KEY # TRUE
              THEN [new EXCEPT !.pc = "rejected",
                      !.trace = <<Ev("reply", <<>>)>>,
                      !.replies = <<Reply("no_api_key", <<>>, 0, <<>>)>>]
              ELSE IF tokens > TokenBudget
              THEN [new EXCEPT !.pc = "rejected", !.tokens = tokens,
                      !.trace = <<Ev("reply", <<>>)>>,
                      !.replies = <<Reply("too_long", <<>>, tokens, <<>>)>>]
              ELSE IF m.urls # <<>>
              THEN [new EXCEPT !.pc = "urls", !.tokens = tokens]
              ELSE [new EXCEPT !.pc = "read", !.tokens = tokens,
                      !.user_role = Msg("user", m.text)])

\* initiateChat up to its first await: the guards of lines 180-183, the
\* message of lines 184-191 and the URLs of line 192
Start(p) ==
    /\ inv[p].pc = "idle"
    /\ UNCHANGED <<FOUND_API_KEY, chat, store_log>>
    /\ \E c \in Contexts, sh \in BOOLEAN, m \in UserMessages :
         LET new == [Idle EXCEPT !.ctx = c, !.shared_chat = sh,
                                 !.message = m, !.chat_at_start = chat]
             tokens == calculate_tokens(m.tokens, SystemTokens)
         IN inv' = Set(p,
              IF FOUND_API_KEY # TRUE
              THEN [new EXCEPT !.pc = "rejected",
                      !.trace = <<Ev("reply", <<>>)>>,
                      !.replies = <<Reply("no_api_key", <<>>, 0, <<>>)>>]
              ELSE IF m.text = ""
              THEN [new EXCEPT !.pc = "rejected",
                      !.trace = <<Ev("reply", <<>>)>>,
                      !.replies = <<Reply("empty", <<>>, 0, <<>>)>>]
              ELSE IF tokens > TokenBudget
              THEN [new EXCEPT !.pc = "rejected", !.tokens = tokens,
                      !.trace = <<Ev("reply", <<>>)>>,
                      !.replies = <<Reply("too_long", <<>>, tokens, <<>>)>>]
              ELSE IF m.urls # <<>>
              THEN [new EXCEPT !.pc = "urls", !.tokens = tokens]
              ELSE [new EXCEPT !.pc = "read", !.tokens = tokens,
                      !.user_role = Msg("user", m.text)])

\* ResolveUrl that drops a URL it cannot resolve and goes on
ResolveUrl_SkipFailed(p) ==
    /\ inv[p].pc = "urls"
    /\ UNCHANGED <<FOUND_API_KEY, chat, store_log>>
    /\ \E site \in Sites :
         LET me == inv[p]
             url == strip_embed_disabler(me.message.urls[me.next_url])
             r == convert_to_base64(url, site)
             seen == [me EXCEPT !.trace =
                        @ \o [i \in 1..Len(r.events) |-> Ev(r.events[i], url)]]
             images == me.base64_images \o r.frames
         IN inv' = Set(p,
              IF r.exc = None
              THEN IF me.next_url < Len(me.message.urls)
                   THEN [seen EXCEPT !.next_url = @ + 1,
                                     !.base64_images = images]
                   ELSE [seen EXCEPT !.next_url = @ + 1,
                           !.base64_images = images,
                           !.user_role = [role |-> "user",
                                          content |-> me.message.text,
                                          images |-> images,
                                          multipart |-> TRUE],
                           !.pc = "read"]
              ELSE IF me.next_url < Len(me.message.urls)
              THEN [seen EXCEPT !.next_url = @ + 1, !.exc = r.exc]
              ELSE [seen EXCEPT !.next_url = @ + 1, !.exc = r.exc,
                      !.user_role = [role |-> "user",
                                     content |-> me.message.text,
                                     images |-> me.base64_images,
                                     multipart |-> TRUE],
                      !.pc = "read"])

\* ResolveUrl that puts the frames of a URL before those of the URLs
\* resolved so far
ResolveUrl_Prepend(p) ==
    /\ inv[p].pc = "urls"
    /\ UNCHANGED <<FOUND_API_KEY, chat, store_log>>
    /\ \E site \in Sites :
         LET me == inv[p]
             url == strip_embed_disabler(me.message.urls[me.next_url])
             r == convert_to_base64(url, site)
             seen == [me EXCEPT !.trace =
                        @ \o [i \in 1..Len(r.events) |-> Ev(r.events[i], url)]]
             images == r.frames \o me.base64_images
         IN inv' = Set(p,
              IF r.exc = None
              THEN IF me.next_url < Len(me.message.urls)
                   THEN [seen EXCEPT !.next_url = @ + 1,
                                     !.base64_images = images]
                   ELSE [seen EXCEPT !.next_url = @ + 1,
                           !.base64_images = images,
                           !.user_role = [role |-> "user",
                                          content |-> me.message.text,
                                          images |-> images,
                                          multipart |-> TRUE],
                           !.pc = "read"]
              ELSE IF r.exc \in CaughtAttachmentErrors
              THEN [seen EXCEPT !.pc = "rejected", !.exc = r.exc,
                      !.replies = Append(@, Reply("attachment", <<>>, 0, url)),
                      !.trace = Append(@, Ev("reply", <<>>))]
              ELSE [seen EXCEPT !.pc = "raised", !.exc = r.exc])

\* one round of the loop of lines 195-207, and lines 209-215 after the last
ResolveUrl(p) ==
    /\ inv[p].pc = "urls"
    /\ UNCHANGED <<FOUND_API_KEY, chat, store_log>>
    /\ \E site \in Sites :
         LET me == inv[p]
             url == strip_embed_disabler(me.message.urls[me.next_url])
             r == convert_to_base64(url, site)
             seen == [me EXCEPT !.trace =
                        @ \o [i \in 1..Len(r.events) |-> Ev(r.events[i], url)]]
             images == me.base64_images \o r.frames
         IN inv' = Set(p,
              IF r.exc = None
              THEN IF me.next_url < Len(me.message.urls)
                   THEN [seen EXCEPT !.next_url = @ + 1,
                                     !.base64_images = images]
                   ELSE [seen EXCEPT !.next_url = @ + 1,
                           !.base64_images = images,
                           !.user_role = [role |-> "user",
                                          content |-> me.message.text,
                                          images |-> images,
                                          multipart |-> TRUE],
                           !.pc = "read"]
              ELSE IF r.exc \in CaughtAttachmentErrors
              THEN [seen EXCEPT !.pc = "rejected", !.exc = r.exc,
                      !.replies = Append(@, Reply("attachment", <<>>, 0, url)),
                      !.trace = Append(@, Ev("reply", <<>>))]
              ELSE [seen EXCEPT !.pc = "raised", !.exc = r.exc])

\* line 218
ReadHistory(p) ==
    /\ inv[p].pc = "read"
    /\ UNCHANGED <<FOUND_API_KEY, chat>>
    /\ store_log' = Append(store_log,
           Call("read", p, inv[p].ctx, inv[p].shared_chat, <<>>,
                database_read(chat, inv[p].ctx, inv[p].shared_chat)))
    /\ inv' = Set(p, [inv[p] EXCEPT
              !.conversation_history = database_read(chat, inv[p].ctx,
                                                     inv[p].shared_chat),
              !.chat_at_read = chat,
              !.trace = Append(@, Ev("read", <<>>)),
              !.pc = "submit"])

\* Submit that writes the row before the completion API has answered
Submit_PersistFirst(p) ==
    /\ inv[p].pc = "submit"
    /\ UNCHANGED FOUND_API_KEY
    /\ chat' = add_chat(chat, inv[p].ctx.author, inv[p].ctx.guild,
                        inv[p].message.text, "pending", inv[p].shared_chat)
    /\ store_log' = Append(store_log,
           Call("append", p, inv[p].ctx, inv[p].shared_chat,
                <<chat'[Len(chat')]>>, <<>>))
    /\ inv' = Set(p, [inv[p] EXCEPT
              !.messages = <<Msg("system", "system_message")>>
                           \o inv[p].conversation_history
                           \o <<inv[p].user_role>>,
              !.trace = Append(@, Ev("api", <<>>)),
              !.pc = "awaiting"])

\* Submit that puts the new user turn before the history
Submit_UserBeforeHistory(p) ==
    /\ inv[p].pc = "submit"
    /\ UNCHANGED <<FOUND_API_KEY, chat, store_log>>
    /\ inv' = Set(p, [inv[p] EXCEPT
              !.messages = <<Msg("system", "system_message")>>
                           \o <<inv[p].user_role>>
                           \o inv[p].conversation_history,
              !.trace = Append(@, Ev("api", <<>>)),
              !.pc = "awaiting"])

\* lines 219-247: the payload and the call of the completion API
Submit(p) ==
    /\ inv[p].pc = "submit"
    /\ UNCHANGED <<FOUND_API_KEY, chat, store_log>>
    /\ inv' = Set(p, [inv[p] EXCEPT
              !.messages = <<Msg("system", "system_message")>>
                           \o inv[p].conversation_history
                           \o <<inv[p].user_role>>,
              !.trace = Append(@, Ev("api", <<>>)),
              !.pc = "awaiting"])

\* the errors the completion API may raise, all of them OpenAIError
OpenAIErrors == {"RateLimitError", "APITimeoutError"}

\* ApiFails that logs the error and tells the caller nothing
ApiFails_NoReply(p) ==
    /\ inv[p].pc = "awaiting"
    /\ UNCHANGED <<FOUND_API_KEY, chat, store_log>>
    /\ \E e \in OpenAIErrors :
         inv' = Set(p, [inv[p] EXCEPT
              !.api_result = e,
              !.errors = Append(@, e),
              !.pc = "failed"])

\* ApiFails that goes back to the completion call after the error reply
ApiFails_Retry(p) ==
    /\ inv[p].pc = "awaiting"
    /\ UNCHANGED <<FOUND_API_KEY, chat, store_log>>
    /\ \E e \in OpenAIErrors :
         inv' = Set(p, [inv[p] EXCEPT
              !.api_result = e,
              !.errors = Append(@, e),
              !.replies = Append(@, Reply("openai_error", <<>>, 0, <<e>>)),
              !.trace = Append(@, Ev("reply", <<>>)),
              !.pc = "submit"])

\* the completion API raises: lines 284-289
ApiFails(p) ==
    /\ inv[p].pc = "awaiting"
    /\ UNCHANGED <<FOUND_API_KEY, chat, store_log>>
    /\ \E e \in OpenAIErrors :
         inv' = Set(p, [inv[p] EXCEPT
              !.api_result = e,
              !.errors = Append(@, e),
              !.replies = Append(@, Reply("openai_error", <<>>, 0, <<e>>)),
              !.trace = Append(@, Ev("reply", <<>>)),
              !.pc = "failed"])

\* the completion API returns: lines 248-254, up to the await of add_chat;
\* ctx.guild is None in a direct message
ApiSucceeds(p) ==
    /\ inv[p].pc = "awaiting"
    /\ UNCHANGED <<FOUND_API_KEY, chat, store_log>>
    /\ \E r \in ResponseIds :
         inv' = Set(p,
              IF inv[p].ctx.guild = None
              THEN [inv[p] EXCEPT !.api_result = "ok", !.chat_response = r,
                                  !.pc = "raised", !.exc = "AttributeError"]
              ELSE [inv[p] EXCEPT !.api_result = "ok", !.chat_response = r,
                                  !.pc = "persist"])

\* Persist that stores the completion as the user message and the user
\* message as the completion
Persist_SwappedTexts(p) ==
    /\ inv[p].pc = "persist"
    /\ UNCHANGED FOUND_API_KEY
    /\ chat' = add_chat(chat, inv[p].ctx.author, inv[p].ctx.guild,
                        inv[p].chat_response, inv[p].message.text,
                        inv[p].shared_chat)
    /\ store_log' = Append(store_log,
           Call("append", p, inv[p].ctx, inv[p].shared_chat,
                <<chat'[Len(chat')]>>, <<>>))
    /\ LET text == ResponseText(inv[p].chat_response)
       IN inv' = Set(p, [inv[p] EXCEPT
              !.outbox = IF TextLen(text) > DiscordLimit
                         THEN split_message_by_sentence(text)
                         ELSE <<text>>,
              !.trace = Append(@, Ev("append", <<>>)),
              !.pc = "replying"])

\* Persist that writes the table back from what the invocation read
Persist_FromSnapshot(p) ==
    /\ inv[p].pc = "persist"
    /\ UNCHANGED FOUND_API_KEY
    /\ chat' = add_chat(inv[p].chat_at_read, inv[p].ctx.author, inv[p].ctx.guild,
                        inv[p].message.text, inv[p].chat_response,
                        inv[p].shared_chat)
    /\ store_log' = Append(store_log,
           Call("append", p, inv[p].ctx, inv[p].shared_chat,
                <<chat'[Len(chat')]>>, <<>>))
    /\ LET text == ResponseText(inv[p].chat_response)
       IN inv' = Set(p, [inv[p] EXCEPT
              !.outbox = IF TextLen(text) > DiscordLimit
                         THEN split_message_by_sentence(text)
                         ELSE <<text>>,
              !.trace = Append(@, Ev("append", <<>>)),
              !.pc = "replying"])

\* Persist that stores the content of the user turn, frames included
Persist_StoresContent(p) ==
    /\ inv[p].pc = "persist"
    /\ UNCHANGED FOUND_API_KEY
    /\ chat' = add_chat(chat, inv[p].ctx.author, inv[p].ctx.guild,
                        <<inv[p].user_role.content>> \o inv[p].user_role.images,
                        inv[p].chat_response, inv[p].shared_chat)
    /\ store_log' = Append(store_log,
           Call("append", p, inv[p].ctx, inv[p].shared_chat,
                <<chat'[Len(chat')]>>, <<>>))
    /\ LET text == ResponseText(inv[p].chat_response)
       IN inv' = Set(p, [inv[p] EXCEPT
              !.outbox = IF TextLen(text) > DiscordLimit
                         THEN split_message_by_sentence(text)
                         ELSE <<text>>,
              !.trace = Append(@, Ev("append", <<>>)),
              !.pc = "replying"])

\* Persist that cuts the reply into chunks and writes no row
Persist_ReplyOnly(p) ==
    /\ inv[p].pc = "persist"
    /\ UNCHANGED <<FOUND_API_KEY, chat, store_log>>
    /\ LET text == ResponseText(inv[p].chat_response)
       IN inv' = Set(p, [inv[p] EXCEPT
              !.outbox = IF TextLen(text) > DiscordLimit
                         THEN split_message_by_sentence(text)
                         ELSE <<text>>,
              !.pc = "replying"])

\* Persist that reads the thread again and writes the row only when the
\* thread is as the invocation read it
Persist_SkipIfCleared(p) ==
    /\ inv[p].pc = "persist"
    /\ UNCHANGED FOUND_API_KEY
    /\ LET same == database_read(chat, inv[p].ctx, inv[p].shared_chat)
                     = inv[p].conversation_history
           text == ResponseText(inv[p].chat_response)
       IN /\ chat' = IF same
                     THEN add_chat(chat, inv[p].ctx.author, inv[p].ctx.guild,
                                   inv[p].message.text, inv[p].chat_response,
                                   inv[p].shared_chat)
                     ELSE chat
          /\ store_log' = IF same
                          THEN Append(store_log,
                                 Call("append", p, inv[p].ctx, inv[p].shared_chat,
                                      <<chat'[Len(chat')]>>, <<>>))
                          ELSE store_log
          /\ inv' = Set(p, [inv[p] EXCEPT
                 !.outbox = IF TextLen(text) > DiscordLimit
                            THEN split_message_by_sentence(text)
                            ELSE <<text>>,
                 !.trace = IF same THEN Append(@, Ev("append", <<>>)) ELSE @,
                 !.pc = "replying"])

\* lines 250-279: the row is written, then the reply is cut into chunks
Persist(p) ==
    /\ inv[p].pc = "persist"
    /\ UNCHANGED FOUND_API_KEY
    /\ chat' = add_chat(chat, inv[p].ctx.author, inv[p].ctx.guild,
                        inv[p].message.text, inv[p].chat_response,
                        inv[p].shared_chat)
    /\ store_log' = Append(store_log,
           Call("append", p, inv[p].ctx, inv[p].shared_chat,
                <<chat'[Len(chat')]>>, <<>>))
    /\ LET text == ResponseText(inv[p].chat_response)
       IN inv' = Set(p, [inv[p] EXCEPT
              !.outbox = IF TextLen(text) > DiscordLimit
                         THEN split_message_by_sentence(text)
                         ELSE <<text>>,
              !.trace = Append(@, Ev("append", <<>>)),
              !.pc = "replying"])

\* lines 280-283: one ctx.reply
SendReply(p) ==
    /\ inv[p].pc = "replying"
    /\ UNCHANGED <<FOUND_API_KEY, chat, store_log>>
    /\ inv' = Set(p, [inv[p] EXCEPT
              !.replies = Append(@, Reply("text", Head(inv[p].outbox), 0, <<>>)),
              !.outbox = Tail(@),
              !.trace = Append(@, Ev("reply", <<>>)),
              !.pc = IF Len(inv[p].outbox) = 1 THEN "replied" ELSE "replying"])

\* the rows of a table that are not in another
Removed(before, after) ==
    SelectSeq(before, LAMBDA r : \A i \in 1..Len(after) : after[i] # r)

\* initiatechatclear (lines 305-317): the rows are deleted, then the reply;
\* called holds what the command did before
initiatechatclear(p, c, shared_chat, called) ==
    /\ UNCHANGED FOUND_API_KEY
    /\ chat' = database_remove(chat, c, shared_chat)
    /\ store_log' = Append(store_log,
           Call("clear", p, c, shared_chat, Removed(chat, chat'), <<>>))
    /\ inv' = Set(p, [Idle EXCEPT
              !.ctx = c, !.shared_chat = shared_chat, !.chat_at_start = chat,
              !.trace = called \o <<Ev("clear", <<>>), Ev("reply", <<>>)>>,
              !.replies = <<Reply("cleared", <<>>, 0, <<>>)>>,
              !.pc = "cleared"])

\* the command ChatClear (lines 392-402)
ChatClear(p) ==
    /\ inv[p].pc = "idle"
    /\ \E c \in Contexts : initiatechatclear(p, c, FALSE, <<>>)

\* what the author of a command is: owner of the bot, owner of the server,
\* administrator, moderator, or none of these
Roles == {"bot_owner", "guild_owner", "admin", "mod", "member"}

\* DiscordHelper.is_privileged_user
is_privileged_user(role) == role \in {"bot_owner", "guild_owner", "admin", "mod"}

\* what the author of a command in context c may be: a direct message has
\* no server to own, administer or moderate
RolesIn(c) == IF is_dm(c) THEN {"bot_owner", "member"} ELSE Roles

\* the command SharedChatClear (lines 409-425); is_privileged_user asks for
\* the bot owner first and then reads ctx.guild.owner_id, and ctx.guild is
\* None in a direct message
SharedChatClear(p) ==
    /\ inv[p].pc = "idle"
    /\ \E c \in Contexts : \E role \in RolesIn(c) :
         LET asked == <<Ev("is_privileged_user", <<role>>)>>
         IN IF is_privileged_user(role)
            THEN initiatechatclear(p, c, TRUE, asked)
            ELSE /\ UNCHANGED <<FOUND_API_KEY, chat, store_log>>
                 /\ inv' = Set(p,
                      IF is_dm(c)
                      THEN [Idle EXCEPT !.ctx = c, !.shared_chat = TRUE,
                              !.chat_at_start = chat, !.trace = asked,
                              !.pc = "raised", !.exc = "AttributeError"]
                      ELSE [Idle EXCEPT !.ctx = c, !.shared_chat = TRUE,
                              !.chat_at_start = chat,
                              !.trace = Append(asked, Ev("reply", <<>>)),
                              !.replies = <<Reply("not_privileged", <<>>, 0, <<>>)>>,
                              !.pc = "denied"])

\* initiatechatview (lines 319-347): the history is read and sent, in one
\* reply or cut into several, or the reply that there is none
initiatechatview(p, c, shared_chat) ==
    /\ UNCHANGED <<FOUND_API_KEY, chat>>
    /\ LET conversation_history == database_read(chat, c, shared_chat)
       IN /\ store_log' = Append(store_log,
                Call("read", p, c, shared_chat, <<>>, conversation_history))
          /\ inv' = Set(p, [Idle EXCEPT
                !.ctx = c, !.shared_chat = shared_chat,
                !.chat_at_start = chat, !.chat_at_read = chat,
                !.conversation_history = conversation_history,
                !.trace = <<Ev("read", <<>>), Ev("reply", <<>>)>>,
                !.replies = IF conversation_history # <<>>
                            THEN <<Reply("history", <<>>, 0, conversation_history)>>
                            ELSE <<Reply("no_history", <<>>, 0, <<>>)>>,
                !.pc = "viewed"])

\* the command ChatView (lines 432-442)
ChatView(p) ==
    /\ inv[p].pc = "idle"
    /\ \E c \in Contexts : initiatechatview(p, c, FALSE)

\* the command SharedChatView (lines 449-459)
SharedChatView(p) ==
    /\ inv[p].pc = "idle"
    /\ \E c \in Contexts : initiatechatview(p, c, TRUE)

\* the ways a command ends
Ended == Terminal \cup {"cleared", "denied", "viewed"}

\* the command has returned (or its exception has been printed by
\* Tunnel.on_command_error) and the bot takes the next one
Finish(p) ==
    /\ inv[p].pc \in Ended
    /\ UNCHANGED <<FOUND_API_KEY, chat, store_log>>
    /\ inv' = Set(p, Idle)

Next ==
    \/ \E p \in Procs : Start(p)
    \/ \E p \in Procs : ResolveUrl(p)
    \/ \E p \in Procs : ReadHistory(p)
    \/ \E p \in Procs : Submit(p)
    \/ \E p \in Procs : ApiFails(p)
    \/ \E p \in Procs : ApiSucceeds(p)
    \/ \E p \in Procs : Persist(p)
    \/ \E p \in Procs : SendReply(p)

Spec == Init /\ [][Next]_vars

\* ------------------------------------------------ the commands in sequence
\* calls of crud in a behaviour of SpecStore
MaxCalls == 3

\* the members who send commands: u1 and u2 in g1, u1 in g2
StoreContexts ==
    { c \in Contexts : c.guild # None /\ (c.guild = "g1" \/ c.author = "u1") }

\* rows written before the process started, of every thread of StoreContexts
StoreKeys ==
    << <<"u1", "g1", FALSE>>, <<"u2", "g1", FALSE>>, <<"u1", "g1", TRUE>>,
       <<"u2", "g1", TRUE>>,  <<"u1", "g2", FALSE>>, <<"u1", "g2", TRUE>>,
       <<"u1", "g1", FALSE>>, <<"u2", "g1", TRUE>> >>

RECURSIVE StoreTable(_)
StoreTable(n) ==
    IF n = 0 THEN <<>>
    ELSE add_chat(StoreTable(n - 1), StoreKeys[n][1], StoreKeys[n][2],
                  "q" \o ToString(n), "a" \o ToString(n), StoreKeys[n][3])

InitStore ==
    /\ FOUND_API_KEY = TRUE
    /\ chat = StoreTable(Len(StoreKeys))
    /\ inv = [p \in Procs |-> Idle]
    /\ store_log = <<>>

\* a command is taken while the behaviour has calls left; the members are
\* those of StoreContexts
Taken(p) ==
    /\ Len(store_log) < MaxCalls
    /\ inv'[p].ctx \in StoreContexts

\* a chat command with a plain message, answered by a short completion
StoreChat(p) == Start(p) /\ Taken(p) /\ inv'[p].message.text = "hello"
StoreAnswer(p) == ApiSucceeds(p) /\ inv'[p].chat_response = "r_short"
StoreChatClear(p) == ChatClear(p) /\ Taken(p)
\* SharedChatClear is also sent in direct messages
StoreSharedChatClear(p) ==
    /\ SharedChatClear(p)
    /\ Len(store_log) < MaxCalls
    /\ inv'[p].ctx \in StoreContexts \/ is_dm(inv'[p].ctx)
StoreChatView(p) == ChatView(p) /\ Taken(p)
StoreSharedChatView(p) == SharedChatView(p) /\ Taken(p)

NextStore ==
    \/ \E p \in Procs : StoreChat(p)
    \/ \E p \in Procs : ReadHistory(p)
    \/ \E p \in Procs : Submit(p)
    \/ \E p \in Procs : StoreAnswer(p)
    \/ \E p \in Procs : Persist(p)
    \/ \E p \in Procs : SendReply(p)
    \/ \E p \in Procs : StoreChatClear(p)
    \/ \E p \in Procs : StoreSharedChatClear(p)
    \/ \E p \in Procs : StoreChatView(p)
    \/ \E p \in Procs : StoreSharedChatView(p)
    \/ \E p \in Procs : Finish(p)

SpecStore == InitStore /\ [][NextStore]_vars

\* ------------------------------------------- two invocations at a time
\* two chat commands whose coroutines interleave at their awaits
Workers == {1, 2}

\* the members who send them: u1 and u2 in g1
ConcContexts == { c \in Contexts : c.guild = "g1" }

InitConc ==
    /\ FOUND_API_KEY = TRUE
    /\ chat \in {<<>>, StoreTable(Len(StoreKeys))}
    /\ inv = [p \in Workers |-> Idle]
    /\ store_log = <<>>

\* a chat command with a plain message or with one URL
ConcChat(p) ==
    /\ Start(p)
    /\ inv'[p].ctx \in ConcContexts
    /\ inv'[p].message.text \in {"hello", "see a"}

\* the URL is probed and downloaded: it gives one frame, or its format is
\* refused.  requests blocks the event loop, so that stepping another
\* invocation before this one admits more interleavings than the bot has.
ConcResolveUrl(p) ==
    /\ ResolveUrl(p)
    /\ inv'[p].exc \in {None, "UnsupportedImageFormatError"}
    /\ Len(inv'[p].base64_images) <= 1

\* the completion API answers, with a short or a long completion
ConcAnswer(p) == ApiSucceeds(p) /\ inv'[p].chat_response \in {"r_short", "r_two"}

NextConc ==
    \/ \E p \in Workers : ConcChat(p)
    \/ \E p \in Workers : ConcResolveUrl(p)
    \/ \E p \in Workers : ReadHistory(p)
    \/ \E p \in Workers : Submit(p)
    \/ \E p \in Workers : ApiFails(p)
    \/ \E p \in Workers : ConcAnswer(p)
    \/ \E p \in Workers : Persist(p)
    \/ \E p \in Workers : SendReply(p)

SpecConc == InitConc /\ [][NextConc]_vars

\* ------------------------------------------------ a clear beside a chat
\* two commands of members of g1 at a time, each a chat command or a clear
\* command; a clear command is one step, a chat command is interleaved
\* with the other command at its awaits
RaceChat(p) ==
    /\ Start(p)
    /\ inv'[p].ctx \in ConcContexts
    /\ inv'[p].message.text = "hello"

RaceAnswer(p) == ApiSucceeds(p) /\ inv'[p].chat_response = "r_short"
RaceChatClear(p) == ChatClear(p) /\ inv'[p].ctx \in ConcContexts
RaceSharedChatClear(p) == SharedChatClear(p) /\ inv'[p].ctx \in ConcContexts

NextRace ==
    \/ \E p \in Workers : RaceChat(p)
    \/ \E p \in Workers : ReadHistory(p)
    \/ \E p \in Workers : Submit(p)
    \/ \E p \in Workers : ApiFails(p)
    \/ \E p \in Workers : RaceAnswer(p)
    \/ \E p \in Workers : Persist(p)
    \/ \E p \in Workers : SendReply(p)
    \/ \E p \in Workers : RaceChatClear(p)
    \/ \E p \in Workers : RaceSharedChatClear(p)

SpecRace == InitConc /\ [][NextRace]_vars

\* ------------------------------------------------ the converter by itself
\* convert_to_base64 called with one URL, for every answer of the web
\* server; inv holds the call: its URL, the answer and what it returned
NoResult == [exc |-> None, frames |-> <<>>, events |-> <<>>]

InitConvert ==
    /\ FOUND_API_KEY = TRUE
    /\ chat = <<>>
    /\ store_log = <<>>
    /\ \E url \in {UrlA, strip_embed_disabler(UrlB)}, site \in Sites :
          inv = [p \in Procs |-> [pc |-> "call", url |-> url, site |-> site,
                                  result |-> NoResult]]

\* utils.py:549-565
Convert(p) ==
    /\ inv[p].pc = "call"
    /\ UNCHANGED <<FOUND_API_KEY, chat, store_log>>
    /\ inv' = Set(p, [inv[p] EXCEPT
              !.result = convert_to_base64(inv[p].url, inv[p].site),
              !.pc = "returned"])

NextConvert == \E p \in Procs : Convert(p)

SpecConvert == InitConvert /\ [][NextConvert]_vars

\* Spec with the scheduling of the event loop: a coroutine that can go on
\* is resumed (the read, the building of the payload, the append and the
\* replies are the bot's own steps), and the completion call is answered or
\* raises in the end (the OpenAI client gives up after its default timeout
\* with an APITimeoutError).  The answer of a web server to head() and
\* get() is not forced: utils.py:217, 222 and 316 pass no timeout to
\* requests, which then waits for as long as the server stays silent.
Fairness ==
    \A p \in Procs :
        /\ WF_vars(ReadHistory(p))
        /\ WF_vars(Submit(p))
        /\ WF_vars(ApiFails(p) \/ ApiSucceeds(p))
        /\ WF_vars(Persist(p))
        /\ WF_vars(SendReply(p))

SpecLive == Init /\ [][Next]_vars /\ Fairness

\* ------------------------------------------------------------ properties
Began(p) == inv[p].pc # "idle"

\* the operations an invocation has called so far
Ops(p) == { inv[p].trace[i].op : i \in 1..Len(inv[p].trace) }

\* the position of the first call of op in the trace of p (0 when none)
FirstAt(p, op) ==
    LET at == { i \in 1..Len(inv[p].trace) : inv[p].trace[i].op = op }
    IN IF at = {} THEN 0 ELSE CHOOSE i \in at : \A j \in at : i <= j

\* the rows of a table that belong to the thread an invocation reads: those
\* of its server that are shared, or private and its author's
ThreadRows(table, p) ==
    LET server_id == IF inv[p].ctx.guild = None THEN inv[p].ctx.channel
                     ELSE inv[p].ctx.guild
    IN { table[i] : i \in { j \in 1..Len(table) :
           /\ table[j].server_id = server_id
           /\ table[j].shared_chat = inv[p].shared_chat
           /\ inv[p].shared_chat \/ table[j].user_id = inv[p].ctx.author } }

\* the rows of a thread that fewer than HistoryLimit rows of it are newer than
RecentRows(table, p) ==
    { r \in ThreadRows(table, p) :
        Cardinality({ q \in ThreadRows(table, p) : q.id > r.id }) < HistoryLimit }

\* C1: a row is written only after the completion call of the same
\* invocation has returned a completion, and the row is that invocation's
\* turn; when the call raises, the table is as it was when the invocation
\* started.
C1_AppendOnlyAfterCompletion ==
    \A p \in Procs : Began(p) =>
        /\ chat # inv[p].chat_at_start =>
             /\ inv[p].api_result = "ok"
             /\ 0 < FirstAt(p, "api") /\ FirstAt(p, "api") < FirstAt(p, "append")
             /\ chat = add_chat(inv[p].chat_at_start, inv[p].ctx.author,
                                inv[p].ctx.guild, inv[p].message.text,
                                inv[p].chat_response, inv[p].shared_chat)
        /\ inv[p].api_result \in OpenAIErrors =>
             /\ chat = inv[p].chat_at_start
             /\ "append" \notin Ops(p)

\* the completion call raised while the table held rows
C1_Witness ==
    \E p \in Procs : /\ inv[p].pc = "failed"
                     /\ inv[p].api_result \in OpenAIErrors
                     /\ Len(inv[p].chat_at_start) > HistoryLimit

C3_ReadRecent ==
    \A p \in Procs : "read" \in Ops(p) =>
        LET h == inv[p].conversation_history
            k == Cardinality(ThreadRows(inv[p].chat_at_read, p))
            recent == RecentRows(inv[p].chat_at_read, p)
        IN /\ Len(h) = 2 * Min(k, 10)
           /\ k = 0 => h = <<>>
           /\ \A i \in 1..Min(k, 10) :
                \E r \in recent :
                    /\ Cardinality({ q \in recent : q.id < r.id }) = i - 1
                    /\ {h[2 * i - 1], h[2 * i]} =
                         {Msg("user", r.user_message),
                          Msg("assistant", r.assistant_message)}

\* a thread of more than 10 turns was read
C3_Witness ==
    \E p \in Procs : /\ "read" \in Ops(p)
                     /\ Cardinality(ThreadRows(inv[p].chat_at_read, p)) > 10
                     /\ Len(inv[p].chat_at_read) >
                          Cardinality(ThreadRows(inv[p].chat_at_read, p))

\* C4: the payload sent to the completion API is the system message, then
\* the messages the read returned, oldest first, then the new user turn:
\* 2 + 2 * min(k, 10) messages for a thread of k turns, 2 for an empty one.
C4_PayloadOrder ==
    \A p \in Procs : "api" \in Ops(p) =>
        LET m == inv[p].messages
            k == Cardinality(ThreadRows(inv[p].chat_at_read, p))
        IN /\ Len(m) = 2 + 2 * Min(k, 10)
           /\ k = 0 => Len(m) = 2
           /\ m[1].role = "system"
           /\ \A i \in 2..Len(m) : m[i].role # "system"
           /\ m[Len(m)].role = "user"
           /\ m[Len(m)].content = inv[p].message.text
           /\ SubSeq(m, 2, Len(m) - 1) = inv[p].conversation_history
           /\ inv[p].conversation_history =
                database_read(inv[p].chat_at_read, inv[p].ctx, inv[p].shared_chat)

\* a payload was sent for a thread of more than 10 turns
C4_Witness ==
    \E p \in Procs : /\ "api" \in Ops(p)
                     /\ Len(inv[p].messages) = 22
                     /\ Cardinality(ThreadRows(inv[p].chat_at_read, p)) > 10

\* C5 as stated: in the history read and sent, the assistant line of every
\* turn comes right before the user line of the same turn.
C5_AssistantBeforeUser ==
    \A p \in Procs : "read" \in Ops(p) =>
        LET h == inv[p].conversation_history
        IN \A i \in 1..(Len(h) \div 2) :
             /\ h[2 * i - 1].role = "assistant"
             /\ h[2 * i].role = "user"
             /\ \E r \in ThreadRows(inv[p].chat_at_read, p) :
                    /\ h[2 * i - 1].content = r.assistant_message
                    /\ h[2 * i].content = r.user_message

\* C5 amended: in the history read and sent, the user line of every turn
\* comes right before the assistant line of the same turn, for every turn
\* from the oldest to the newest.
C5_UserBeforeAssistant ==
    \A p \in Procs : "read" \in Ops(p) =>
        LET h == inv[p].conversation_history
            m == inv[p].messages
        IN /\ Len(h) % 2 = 0
           /\ \A i \in 1..(Len(h) \div 2) :
                /\ h[2 * i - 1].role = "user"
                /\ h[2 * i].role = "assistant"
                /\ \E r \in ThreadRows(inv[p].chat_at_read, p) :
                       /\ h[2 * i - 1].content = r.user_message
                       /\ h[2 * i].content = r.assistant_message
                /\ m # <<>> => /\ m[2 * i] = h[2 * i - 1]
                               /\ m[2 * i + 1] = h[2 * i]

\* a history of several turns was read and sent
C5_Witness ==
    \E p \in Procs : /\ "api" \in Ops(p)
                     /\ Len(inv[p].conversation_history) >= 4

\* the exceptions convert_to_base64 raises for a URL
AttachmentErrors ==
    {"ValueError", "UnsupportedImageFormatError", "UnboundLocalError",
     "FileSizeLimitError"}

\* the URLs of the message of p, as they are probed
UrlsOf(p) ==
    { strip_embed_disabler(inv[p].message.urls[i]) :
        i \in 1..Len(inv[p].message.urls) }

\* C6 as stated: the headers of every URL of the message are probed and
\* validated before the completion API is called, and an invocation that
\* met a URL of an unsupported format or of a declared size over the limit
\* ends with an error reply, without a completion call and without an
\* append.
C6_ValidationBeforeCall ==
    \A p \in Procs :
        /\ "api" \in Ops(p) =>
             \A u \in UrlsOf(p) :
                \E i \in 1..(FirstAt(p, "api") - 1) :
                    inv[p].trace[i] = Ev("head", u)
        /\ inv[p].exc \in {"UnsupportedImageFormatError", "FileSizeLimitError"} =>
             /\ inv[p].pc = "rejected"
             /\ Len(inv[p].replies) = 1
             /\ inv[p].replies[1].kind = "attachment"
             /\ "api" \notin Ops(p)
             /\ "append" \notin Ops(p)
             /\ chat = inv[p].chat_at_start

\* C7: when a URL of the message fails to resolve, nothing is sent to the
\* completion API; a payload that is sent carries frames of every URL of
\* the message.
C7_NoPartialAttachments ==
    \A p \in Procs :
        /\ inv[p].exc \in AttachmentErrors =>
             /\ "api" \notin Ops(p)
             /\ inv[p].messages = <<>>
        /\ "api" \in Ops(p) =>
             LET last == inv[p].messages[Len(inv[p].messages)]
             IN /\ inv[p].exc \notin AttachmentErrors
                /\ \A u \in UrlsOf(p) :
                      \E i \in 1..Len(last.images) : last.images[i].url = u
                /\ \A i \in 1..Len(last.images) : last.images[i].url \in UrlsOf(p)

\* the second URL of a message failed after the first had given its frames
C7_Witness ==
    \E p \in Procs : /\ inv[p].pc \in Terminal
                     /\ inv[p].exc \in AttachmentErrors
                     /\ inv[p].base64_images # <<>>
                     /\ Len(inv[p].message.urls) = 2

\* the completion chunks passed to ctx.reply, in order
Chunks(p) ==
    LET sent == SelectSeq(inv[p].replies, LAMBDA r : r.kind = "text")
    IN [i \in 1..Len(sent) |-> sent[i].text]

LongResponse(p) ==
    /\ inv[p].chat_response # None
    /\ TextLen(ResponseText(inv[p].chat_response)) > 2000

\* C8 as stated: of a completion of more than 2000 characters, every chunk
\* passed to ctx.reply is non-empty and at most 2000 characters long.
C8_ChunksWithinLimit ==
    \A p \in Procs : LongResponse(p) =>
        \A i \in 1..Len(Chunks(p)) :
            /\ TextLen(Chunks(p)[i]) >= 1
            /\ TextLen(Chunks(p)[i]) <= 2000

\* C9 as stated: a completion of more than 2000 characters is sent as at
\* least 2 chunks whose concatenation, in the order sent, is the completion.
C9_ChunksSpellResponse ==
    \A p \in Procs : (LongResponse(p) /\ inv[p].pc = "replied") =>
        /\ Len(Chunks(p)) >= 2
        /\ TextLen(Flatten(Chunks(p))) = TextLen(ResponseText(inv[p].chat_response))
        /\ Normal(Flatten(Chunks(p))) = Normal(ResponseText(inv[p].chat_response))

\* C10: when the completion call raises, the error is logged, the caller
\* gets exactly one reply, which names the failure, no completion text is
\* sent, nothing is written and the invocation ends failed.
C10_UpstreamErrorReported ==
    \A p \in Procs : inv[p].api_result \in OpenAIErrors =>
        /\ inv[p].pc = "failed"
        /\ inv[p].errors = <<inv[p].api_result>>
        /\ Len(inv[p].replies) = 1
        /\ inv[p].replies[1].kind = "openai_error"
        /\ inv[p].replies[1].about = <<inv[p].api_result>>
        /\ Chunks(p) = <<>>
        /\ inv[p].chat_response = None
        /\ "append" \notin Ops(p)

\* the completion call raised for a message with resolved attachments
C10_Witness ==
    \E p \in Procs : /\ inv[p].api_result = "APITimeoutError"
                     /\ inv[p].pc = "failed"
                     /\ inv[p].base64_images # <<>>

\* how many times an invocation has called op so far
Calls(p, op) ==
    Cardinality({ i \in 1..Len(inv[p].trace) : inv[p].trace[i].op = op })

\* C11: an invocation calls the completion API at most once and appends at
\* most once; after the call only the append and replies follow, after the
\* append only replies follow, and an invocation whose call raised has
\* made that one call and no append.
C11_NoRetry ==
    \A p \in Procs :
        /\ Calls(p, "api") <= 1
        /\ Calls(p, "append") <= 1
        /\ \A i \in 1..Len(inv[p].trace) :
              /\ (0 < FirstAt(p, "api") /\ FirstAt(p, "api") < i) =>
                    inv[p].trace[i].op \in {"append", "reply"}
              /\ (0 < FirstAt(p, "append") /\ FirstAt(p, "append") < i) =>
                    inv[p].trace[i].op = "reply"
        /\ inv[p].pc = "failed" =>
              /\ Calls(p, "api") = 1
              /\ Calls(p, "append") = 0
              /\ inv[p].trace[Len(inv[p].trace)].op = "reply"
        /\ inv[p].pc \in {"replying", "replied"} =>
              /\ Calls(p, "api") = 1
              /\ Calls(p, "append") = 1

\* the completion call raised and the invocation ended after its error reply
C11_Witness ==
    \E p \in Procs : /\ inv[p].pc = "failed"
                     /\ Calls(p, "api") = 1
                     /\ inv[p].trace[Len(inv[p].trace)].op = "reply"
                     /\ inv[p].message.urls = <<>>

\* C20: an invocation with an empty message ends at once with exactly one
\* reply to the caller (the empty-message reply when the API key is set),
\* having made no probe, no download, no completion call, no read and no
\* append.
C20_EmptyRejected ==
    \A p \in Procs : (Began(p) /\ inv[p].message.text = "") =>
        /\ inv[p].pc = "rejected"
        /\ Len(inv[p].replies) = 1
        /\ inv[p].replies[1].kind \in {"empty", "no_api_key"}
        /\ FOUND_API_KEY => inv[p].replies[1].kind = "empty"
        /\ inv[p].trace = <<Ev("reply", <<>>)>>
        /\ inv[p].messages = <<>>
        /\ inv[p].conversation_history = <<>>
        /\ chat = inv[p].chat_at_start

\* an empty message was rejected while the thread held turns
C20_Witness ==
    \E p \in Procs : /\ inv[p].pc = "rejected"
                     /\ inv[p].message.text = ""
                     /\ FOUND_API_KEY
                     /\ inv[p].replies[1].kind = "empty"
                     /\ ThreadRows(chat, p) # {}

\* C17 as stated: every failure of an invocation is caught inside
\* initiateChat and ends with exactly one reply to the caller: no
\* invocation ends by an exception leaving initiateChat, and one that ended
\* without a completion reply has sent exactly one reply.
C17_AllFailuresCaught ==
    \A p \in Procs :
        /\ inv[p].pc # "raised"
        /\ inv[p].pc \in {"rejected", "failed"} => Len(inv[p].replies) = 1

\* C18 as stated: every invocation that has begun ends, also when a web
\* server or the completion API stays silent.
C18_EventuallyEnds ==
    \A p \in Procs : Began(p) ~> (inv[p].pc \in Terminal)

\* C19 as stated: an invocation whose header probe or download failed on
\* the network ends with one reply that names the failing URL, with no
\* completion call and no append.
C19_NetworkErrorReported ==
    \A p \in Procs : inv[p].exc = "ValueError" =>
        /\ inv[p].pc = "rejected"
        /\ Len(inv[p].replies) = 1
        /\ inv[p].replies[1].about \in UrlsOf(p)
        /\ Calls(p, "api") = 0
        /\ Calls(p, "append") = 0

\* the ConversationKey of a call of crud and of a row: the server, the
\* shared flag and, for a private thread, the user
KeyOf(c, shared_chat) ==
    [server |-> get_server_id_and_name(c)[1], shared |-> shared_chat,
     user |-> IF shared_chat THEN None ELSE c.author]

KeyOfCall(call) == KeyOf(call.ctx, call.shared_chat)

KeyOfRow(r) ==
    [server |-> r.server_id, shared |-> r.shared_chat,
     user |-> IF r.shared_chat THEN None ELSE r.user_id]

\* the calls op of the log, by position
CallsAt(op) == { i \in 1..Len(store_log) : store_log[i].op = op }

\* no row was appended to the thread of key between calls i and j
NoAppendBetween(key, i, j) ==
    \A k \in (i + 1)..(j - 1) :
        ~(/\ store_log[k].op = "append"
          /\ KeyOfRow(store_log[k].rows[1]) = key)

\* C12: a read of a thread that follows a clear of the same thread, with
\* no append to it in between, returns the empty sequence; a clear of a
\* thread that holds no row succeeds and leaves the table as it was, and a
\* clear that follows a clear of the same thread deletes nothing.
C12_ClearThenRead ==
    /\ \A i \in CallsAt("clear"), j \in CallsAt("read") :
          (/\ i < j
           /\ KeyOfCall(store_log[j]) = KeyOfCall(store_log[i])
           /\ NoAppendBetween(KeyOfCall(store_log[i]), i, j))
          => store_log[j].result = <<>>
    /\ \A i \in CallsAt("clear"), j \in CallsAt("clear") :
          (/\ i < j
           /\ KeyOfCall(store_log[j]) = KeyOfCall(store_log[i])
           /\ NoAppendBetween(KeyOfCall(store_log[i]), i, j))
          => store_log[j].rows = <<>>
    /\ \A p \in Procs : inv[p].pc = "cleared" =>
          /\ ThreadRows(chat, p) = {}
          /\ inv[p].replies = <<Reply("cleared", <<>>, 0, <<>>)>>
          /\ ThreadRows(inv[p].chat_at_start, p) = {} =>
                chat = inv[p].chat_at_start

\* a thread that held rows was cleared, cleared again, and then read
C12_Witness ==
    \E i \in CallsAt("clear"), j \in CallsAt("clear"), k \in CallsAt("read") :
        /\ i < j /\ j < k
        /\ store_log[i].rows # <<>>
        /\ KeyOfCall(store_log[j]) = KeyOfCall(store_log[i])
        /\ KeyOfCall(store_log[k]) = KeyOfCall(store_log[i])
        /\ Len(chat) > 0

\* C13: a clear deletes the rows of its thread and no other: the table it
\* leaves is the table it found without the rows of that thread, so the
\* rows of the other flag, of other users and of other servers stay, in
\* their order.
C13_ClearFrame ==
    /\ \A p \in Procs : inv[p].pc = "cleared" =>
          chat = SelectSeq(inv[p].chat_at_start,
                   LAMBDA r : KeyOfRow(r) # KeyOf(inv[p].ctx, inv[p].shared_chat))
    /\ \A i \in CallsAt("clear") :
          \A k \in 1..Len(store_log[i].rows) :
              KeyOfRow(store_log[i].rows[k]) = KeyOfCall(store_log[i])

\* a private clear of one user in a server that also held shared rows of
\* that user, rows of another user and rows of that user in another server
C13_Witness ==
    \E p \in Procs :
        /\ inv[p].pc = "cleared"
        /\ ~inv[p].shared_chat
        /\ Len(chat) < Len(inv[p].chat_at_start)
        /\ \E i, j, k \in 1..Len(chat) :
              /\ chat[i].user_id = inv[p].ctx.author
              /\ chat[i].server_id = inv[p].ctx.guild /\ chat[i].shared_chat
              /\ chat[j].user_id # inv[p].ctx.author
              /\ chat[j].server_id = inv[p].ctx.guild /\ ~chat[j].shared_chat
              /\ chat[k].user_id = inv[p].ctx.author
              /\ chat[k].server_id # inv[p].ctx.guild /\ ~chat[k].shared_chat

\* the pairs (user line, assistant line) of a history
Pairs(h) == { <<h[2 * i - 1].content, h[2 * i].content>> : i \in 1..(Len(h) \div 2) }

\* C14: a row is appended under the key of the invocation that wrote it,
\* and every pair a read returns is a row of exactly the thread read, all
\* of them up to the 10 newest: a private read returns no shared row and
\* no row of another user or server, a shared read returns the shared rows
\* of the server whoever wrote them and no private row.
C14_ReadsOwnThread ==
    /\ \A i \in CallsAt("append") :
          /\ KeyOfRow(store_log[i].rows[1]) = KeyOfCall(store_log[i])
          /\ store_log[i].rows[1].user_id = store_log[i].ctx.author
    /\ \A p \in Procs : "read" \in Ops(p) =>
          LET own == ThreadRows(inv[p].chat_at_read, p)
              others == { inv[p].chat_at_read[i] : i \in 1..Len(inv[p].chat_at_read) }
                          \ own
              got == Pairs(inv[p].conversation_history)
          IN /\ \A r \in own :
                   KeyOfRow(r) = KeyOf(inv[p].ctx, inv[p].shared_chat)
             /\ \A r \in others :
                   KeyOfRow(r) # KeyOf(inv[p].ctx, inv[p].shared_chat)
             /\ got \subseteq { <<r.user_message, r.assistant_message>> : r \in own }
             /\ Cardinality(own) <= HistoryLimit =>
                   got = { <<r.user_message, r.assistant_message>> : r \in own }
             /\ \A r \in others :
                   (\A q \in own : q.user_message # r.user_message)
                   => <<r.user_message, r.assistant_message>> \notin got

\* a shared read by one member returned a row written by another, after an
\* append and while the table held private rows of the reader
C14_Witness ==
    \E p \in Procs :
        /\ "read" \in Ops(p)
        /\ inv[p].shared_chat
        /\ CallsAt("append") # {}
        /\ \E r \in ThreadRows(inv[p].chat_at_read, p) :
              /\ r.user_id # inv[p].ctx.author
              /\ <<r.user_message, r.assistant_message>>
                    \in Pairs(inv[p].conversation_history)
        /\ \E i \in 1..Len(inv[p].chat_at_read) :
              /\ inv[p].chat_at_read[i].user_id = inv[p].ctx.author
              /\ ~inv[p].chat_at_read[i].shared_chat

\* C15: the row an invocation appends holds its user message and the
\* completion it got, and a read of the same key that is the next call of
\* the store returns that pair last, the user line before the assistant
\* line.
C15_RoundTrip ==
    /\ \A p \in Procs : inv[p].pc \in {"replying", "replied"} =>
          \E i \in CallsAt("append") :
              /\ store_log[i].by = p
              /\ \A j \in CallsAt("append") : j <= i
              /\ store_log[i].rows[1].user_message = inv[p].message.text
              /\ store_log[i].rows[1].assistant_message = inv[p].chat_response
              /\ store_log[i].rows[1] = chat[Len(chat)]
    /\ \A i \in CallsAt("append") :
          (/\ i + 1 \in CallsAt("read")
           /\ KeyOfCall(store_log[i + 1]) = KeyOfCall(store_log[i]))
          => LET h == store_log[i + 1].result
             IN /\ Len(h) >= 2
                /\ h[Len(h) - 1] = Msg("user", store_log[i].rows[1].user_message)
                /\ h[Len(h)] = Msg("assistant",
                                    store_log[i].rows[1].assistant_message)

\* a turn was appended to a thread that held turns, and the thread read next
C15_Witness ==
    \E i \in CallsAt("append") :
        /\ i + 1 \in CallsAt("read")
        /\ KeyOfCall(store_log[i + 1]) = KeyOfCall(store_log[i])
        /\ Len(store_log[i + 1].result) >= 4
        /\ store_log[i].rows[1].user_message = "hello"

\* the table after invocation p has appended its turn to table
WithTurnOf(table, p) ==
    add_chat(table, inv[p].ctx.author, inv[p].ctx.guild, inv[p].message.text,
             inv[p].chat_response, inv[p].shared_chat)

\* invocation p has appended
Appended(p) == inv[p].pc \in {"replying", "replied"}

\* the table as it was before either of two invocations appended
Base(p, q) ==
    IF Len(inv[p].chat_at_start) <= Len(inv[q].chat_at_start)
    THEN inv[p].chat_at_start ELSE inv[q].chat_at_start

\* C16: when two invocations on the same key have both appended, the table
\* is the table from before them followed by the two turns, each a row of
\* the user message and the completion of one invocation, in the order in
\* which they appended; nothing else was added or removed.
C16_BothAppendsKept ==
    \A p \in Workers, q \in Workers :
        (/\ p # q
         /\ Appended(p) /\ Appended(q)
         /\ KeyOf(inv[p].ctx, inv[p].shared_chat)
              = KeyOf(inv[q].ctx, inv[q].shared_chat))
        => /\ chat \in { WithTurnOf(WithTurnOf(Base(p, q), p), q),
                          WithTurnOf(WithTurnOf(Base(p, q), q), p) }
           /\ Len(chat) = Len(Base(p, q)) + 2
           /\ \E i \in CallsAt("append"), j \in CallsAt("append") :
                 /\ i < j
                 /\ <<store_log[i].rows[1], store_log[j].rows[1]>>
                      = <<chat[Len(chat) - 1], chat[Len(chat)]>>
                 /\ {store_log[i].by, store_log[j].by} = {p, q}

\* two users wrote to the shared thread of a server with different messages
\* and completions, both having read before either appended, and the one
\* who read second appended first
C16_Witness ==
    /\ Appended(1) /\ Appended(2)
    /\ inv[1].shared_chat /\ inv[2].shared_chat
    /\ inv[1].ctx.author # inv[2].ctx.author
    /\ inv[1].message.text # inv[2].message.text
    /\ inv[1].chat_response # inv[2].chat_response
    /\ inv[1].chat_at_read = inv[2].chat_at_read
    /\ Len(inv[1].chat_at_read) > 0
    /\ \E i \in CallsAt("read"), j \in CallsAt("read") :
          /\ i < j /\ store_log[i].by = 1 /\ store_log[j].by = 2
    /\ chat = WithTurnOf(WithTurnOf(inv[1].chat_at_read, 2), 1)

\* C21 as stated: the system prompt and the user message of every payload
\* sent to the completion API, as sent, are the texts the budget test
\* measured, and together have at most 1024 tokens.
C21_SentWithinBudget ==
    \A p \in Procs : "api" \in Ops(p) =>
        LET sent == SystemTokensSent
                      + MentionsReplaced(inv[p].message.tokens,
                                         inv[p].message.mentions)
        IN /\ sent = inv[p].tokens
           /\ sent <= 1024

\* the texts a user may send
Texts == { m.text : m \in UserMessages }

\* C22: the row an invocation appends holds the text of the message as its
\* user_message, whatever frames the user turn carried, and a history read
\* from the table it leaves holds text lines only: no line of the history
\* carries an image.
C22_NoAttachmentStored ==
    \A p \in Procs : Appended(p) =>
        LET row == chat[Len(chat)]
            h == database_read(chat, inv[p].ctx, inv[p].shared_chat)
        IN /\ row.user_message = inv[p].message.text
           /\ row.user_message \in Texts
           /\ h[Len(h) - 1] = Msg("user", inv[p].message.text)
           /\ \A i \in 1..Len(h) : /\ h[i].images = <<>>
                                    /\ ~h[i].multipart

\* the turn of a message whose two URLs gave frames was appended
C22_Witness ==
    \E p \in Procs : /\ Appended(p)
                     /\ Len(inv[p].message.urls) = 2
                     /\ Len(inv[p].base64_images) >= 3
                     /\ inv[p].messages[Len(inv[p].messages)].images
                          = inv[p].base64_images

\* the role is_privileged_user found for the author of a SharedChatClear
AskedRole(p) == inv[p].trace[1].url[1]

\* C23 as stated: SharedChatClear deletes the shared rows of the server
\* when its author is bot owner, server owner, administrator or moderator;
\* for any other author it sends the refusal, calls no delete and leaves
\* the table as it was.
C23_SharedClearPrivileged ==
    \A p \in Procs :
        (inv[p].trace # <<>> /\ inv[p].trace[1].op = "is_privileged_user") =>
            /\ is_privileged_user(AskedRole(p)) =>
                  /\ inv[p].pc = "cleared"
                  /\ Calls(p, "clear") = 1
                  /\ chat = database_remove(inv[p].chat_at_start, inv[p].ctx, TRUE)
            /\ ~is_privileged_user(AskedRole(p)) =>
                  /\ inv[p].pc = "denied"
                  /\ inv[p].replies = <<Reply("not_privileged", <<>>, 0, <<>>)>>
                  /\ Calls(p, "clear") = 0
                  /\ chat = inv[p].chat_at_start

\* the calls of crud that invocation p made, by position in the log
LogOf(p, op) == { i \in CallsAt(op) : store_log[i].by = p }

\* C24: an invocation that has sent a chunk of the completion has appended
\* its turn exactly once, and the append came before the first reply; the
\* table is the table it found followed by that one row; and an invocation
\* whose completion call returned and whose append raised has sent no
\* text of the completion, and no other reply.
C24_AppendBeforeReply ==
    \A p \in Procs :
        /\ Chunks(p) # <<>> =>
              /\ Calls(p, "append") = 1
              /\ Cardinality(LogOf(p, "append")) = 1
              /\ FirstAt(p, "append") < FirstAt(p, "reply")
              /\ FirstAt(p, "api") < FirstAt(p, "append")
              /\ chat = WithTurnOf(inv[p].chat_at_read, p)
        /\ (inv[p].api_result = "ok" /\ inv[p].pc = "raised") =>
              /\ Calls(p, "append") = 0
              /\ Chunks(p) = <<>>
              /\ inv[p].replies = <<>>
              /\ chat = inv[p].chat_at_start

\* a completion of more than 2000 characters was sent in several chunks
\* after its turn was appended to a thread that held rows
C24_Witness ==
    \E p \in Procs : /\ inv[p].pc = "replied"
                     /\ Len(Chunks(p)) >= 2
                     /\ inv[p].conversation_history # <<>>
                     /\ Calls(p, "append") = 1

\* the table as it was when call i of the log was made, in a behaviour
\* whose only writes are appends: the rows appended later taken off
TableAt(i) ==
    SubSeq(chat, 1, Len(chat) - Cardinality({ k \in CallsAt("append") : k > i }))

\* invocation p is at, or before, one of its awaits that precede the append
Suspended(p) == inv[p].pc \in {"urls", "read", "submit", "awaiting"}

\* C25: while an invocation has not passed its completion call, through
\* the probe and download of its URLs, its read and its completion call,
\* it has written no row and the table holds only the rows it held at the
\* beginning and the rows other invocations appended; and every read
\* returns the lines of the table as the appends before it left it, so
\* that the turn of another invocation is in it as the user line and the
\* assistant line of one row, or not at all.
C25_NoPartialTurn ==
    /\ \A p \in Workers : Suspended(p) =>
          /\ LogOf(p, "append") = {}
          /\ Calls(p, "append") = 0
          /\ \A i \in 1..Len(chat) :
                \/ i <= Len(chat) - Cardinality(CallsAt("append"))
                \/ \E k \in CallsAt("append") :
                      /\ store_log[k].by # p
                      /\ store_log[k].rows = <<chat[i]>>
    /\ \A i \in CallsAt("read") :
          /\ store_log[i].result
               = database_read(TableAt(i), store_log[i].ctx,
                               store_log[i].shared_chat)
          /\ Len(store_log[i].result) % 2 = 0
          /\ \A pair \in Pairs(store_log[i].result) :
                \E j \in 1..Len(chat) :
                    pair = <<chat[j].user_message, chat[j].assistant_message>>

\* an invocation with a URL waits for its completion, its frame downloaded,
\* having read the turn that the other invocation appended to the same
\* thread while the first was between its download and its read
C25_Witness ==
    /\ inv[1].pc = "awaiting"
    /\ "download" \in Ops(1)
    /\ Len(inv[1].base64_images) = 1
    /\ Appended(2)
    /\ KeyOf(inv[1].ctx, inv[1].shared_chat) = KeyOf(inv[2].ctx, inv[2].shared_chat)
    /\ inv[1].chat_at_start # inv[1].chat_at_read
    /\ <<inv[2].message.text, inv[2].chat_response>>
          \in Pairs(inv[1].conversation_history)

\* the call of convert_to_base64 has returned or raised, and URLHandler
\* had an answer to its HEAD or its GET to take the headers from
Probed(p) ==
    /\ inv[p].pc = "returned"
    /\ inv[p].site.head \/ inv[p].site.get

\* the events of a call, as a set
EventsOf(p) ==
    { inv[p].result.events[i] : i \in 1..Len(inv[p].result.events) }

UrlAt(p, url) ==
    LET at == { i \in 1..Len(inv[p].message.urls) :
                  strip_embed_disabler(inv[p].message.urls[i]) = url }
    IN CHOOSE i \in at : \A j \in at : i <= j

\* C28: the last message of a payload is the user turn.  For a message
\* with no URL it is the text alone.  For a message with URLs it is the
\* text followed by the frames of every URL: each URL of the message gave
\* its frames 1..k, the frames of an earlier URL come before those of a
\* later one, and the frames of one URL come in frame order.
C28_TurnContent ==
    \A p \in Procs : "api" \in Ops(p) =>
        LET turn == inv[p].messages[Len(inv[p].messages)]
            images == turn.images
        IN /\ turn.role = "user"
           /\ turn.content = inv[p].message.text
           /\ inv[p].message.urls = <<>> =>
                 /\ ~turn.multipart
                 /\ images = <<>>
           /\ inv[p].message.urls # <<>> =>
                 /\ turn.multipart
                 /\ \A url \in UrlsOf(p) :
                       \E k \in 1..Len(images) :
                           { images[i].frame :
                               i \in { j \in 1..Len(images) : images[j].url = url } }
                             = 1..k
                 /\ \A i \in 1..Len(images) : images[i].url \in UrlsOf(p)
                 /\ \A i \in 1..Len(images), j \in 1..Len(images) :
                       i < j =>
                         \/ UrlAt(p, images[i].url) < UrlAt(p, images[j].url)
                         \/ /\ images[i].url = images[j].url
                            /\ images[i].frame < images[j].frame

\* a payload was sent for a message of two URLs of two frames each
C28_Witness ==
    \E p \in Procs : /\ "api" \in Ops(p)
                     /\ Len(inv[p].message.urls) = 2
                     /\ Len(inv[p].messages[Len(inv[p].messages)].images) = 4

\* C29 as stated: in a server and in a direct message alike, the append
\* that follows a completion does not raise, the row is written under the
\* server id under which the invocation read its history, and a read of
\* the same thread from the same context finds the turn.
C29_SameServerId ==
    \A p \in Procs : inv[p].api_result = "ok" =>
        /\ inv[p].exc = None
        /\ inv[p].pc # "raised"
        /\ Appended(p) =>
              /\ chat[Len(chat)].server_id = get_server_id_and_name(inv[p].ctx)[1]
              /\ <<inv[p].message.text, inv[p].chat_response>>
                    \in Pairs(database_read(chat, inv[p].ctx, inv[p].shared_chat))

\* the clears of the thread of invocation p that another command made
\* after p had read, by position in the log
ClearsAfterRead(p) ==
    { k \in CallsAt("clear") :
        /\ store_log[k].by # p
        /\ KeyOfCall(store_log[k]) = KeyOf(inv[p].ctx, inv[p].shared_chat)
        /\ \E i \in LogOf(p, "read") : i < k }

\* C30: an invocation reads once.  When a clear of its thread is made
\* after its read and before its append, the payload it sends carries the
\* history as it was read before the clear; once its completion has
\* returned the turn is appended all the same, after the clear, and a
\* read of the thread then returns that turn: the thread is not empty
\* although no command began after the clear.
C30_AppendAfterClear ==
    \A p \in Workers :
        (/\ ClearsAfterRead(p) # {}
         /\ \A k \in ClearsAfterRead(p) : \A j \in LogOf(p, "append") : k < j)
        => /\ Calls(p, "read") = 1
           /\ inv[p].conversation_history
                 = database_read(inv[p].chat_at_read, inv[p].ctx, inv[p].shared_chat)
           /\ "api" \in Ops(p) =>
                 inv[p].messages = <<Msg("system", "system_message")>>
                                     \o inv[p].conversation_history
                                     \o <<inv[p].user_role>>
           /\ inv[p].pc \in {"read", "submit", "awaiting", "persist"} =>
                 database_read(chat, inv[p].ctx, inv[p].shared_chat) = <<>>
           /\ inv[p].pc = "persist" => ENABLED Persist(p)
           /\ Appended(p) =>
                 /\ Cardinality(LogOf(p, "append")) = 1
                 /\ database_read(chat, inv[p].ctx, inv[p].shared_chat)
                       = << Msg("user", inv[p].message.text),
                            Msg("assistant", inv[p].chat_response) >>
                 /\ ThreadRows(chat, p) = { chat[Len(chat)] }

\* the first invocation read a thread that held rows, the other command
\* then cleared that thread while the first awaited its completion, and
\* the first has appended its turn
C30_Witness ==
    /\ Appended(1)
    /\ inv[2].pc = "cleared"
    /\ inv[1].conversation_history # <<>>
    /\ inv[2].chat_at_start = inv[1].chat_at_read
    /\ \E k \in ClearsAfterRead(1) :
          /\ store_log[k].rows # <<>>
          /\ \E j \in LogOf(1, "append") : k < j
    /\ Len(inv[1].messages) = Len(inv[1].conversation_history) + 2
====
